---- MODULE Spec2Model ----
(***************************************************************************)
(* video-tools/video.py: concatenation of video files.                     *)
(*                                                                         *)
(* main() = parse_arguments(); check_files(); process().  The module       *)
(* follows one run of the script from its command line to its exit code.   *)
(* An optional Python value is a sequence: <<>> is None, <<v>> is v.       *)
(* Times are whole clock units (seconds); a float framerate is an integer. *)
(***************************************************************************)
EXTENDS Integers, Sequences, FiniteSets, TLC

\* Longest input list on the command line.
MaxInputs == 2
\* Largest value the clock reaches.
MaxTime == 4

\* video.py:13
OUTPUT_QUALITY == 10

None == <<>>
Some(v) == <<v>>
\* Python truth value of an optional number: None and 0 are false.
Truthy(opt) == opt # None /\ opt[1] # 0

Min(a, b) == IF a < b THEN a ELSE b

(***************************************************************************)
(* The files a command line can name.  "a" is a 3-frame video, "c" a video *)
(* without frames, "bad" delivers one frame and then fails to decode,      *)
(* "odd" holds one frame of another size, "junk" is a file that is no      *)
(* video, "missing" does not exist and "locked" exists but is not readable.*)
(***************************************************************************)
InputPaths == {"a", "c", "bad", "odd", "junk", "missing", "locked"}

\* Path.is_file() of an input path (video.py:87).
IsFile(p) == p # "missing"

\* os.access(path, os.R_OK) of an input path (video.py:90).
Readable(p) == p # "locked"

\* imageio.get_reader(p) returns a reader; it raises for a file it cannot parse.
ReaderOpens(p) == p # "junk"

\* Number of frames the reader of p yields before it stops or fails.
NFrames(p) == CASE p = "a" -> 3
                [] p = "bad" -> 1
                [] p = "odd" -> 1
                [] OTHER -> 0

\* The reader of p raises in place of its next frame once NFrames(p) frames
\* were delivered.
DecodeFails(p) == p = "bad"

FrameSize(p) == IF p = "odd" THEN <<4, 2>> ELSE <<2, 2>>

\* The frames `for frame in reader` yields for p, in file order.
Frames(p) == [k \in 1..NFrames(p) |-> [src |-> p, idx |-> k, size |-> FrameSize(p)]]

\* reader.get_meta_data() (video.py:120); pix_fmt is a string, kept as its
\* characters.
Metadata(p) ==
    [size    |-> FrameSize(p),
     fps     |-> IF p = "odd" THEN 5 ELSE 3,
     pix_fmt |-> IF p = "odd" THEN <<"r", "g", "b">>
                              ELSE <<"y", "u", "v", "(", "t", "v", ")">>,
     codec   |-> IF p = "odd" THEN "mpeg4" ELSE "h264"]

Alnum == {"r", "g", "b", "y", "u", "v", "t"}

\* A pixel format passed on as the metadata gives it.
LeadingAlnumWhole(s) == s

\* re.search(r"^[0-9A-Za-z]+", s)[0]: the leading alphanumeric run of s.
RECURSIVE LeadingAlnum(_)
LeadingAlnum(s) ==
    IF s = <<>> \/ Head(s) \notin Alnum THEN <<>>
    ELSE <<Head(s)>> \o LeadingAlnum(Tail(s))

\* Sequences over S of length lo..hi.
SeqsOf(S, lo, hi) == UNION {[1..n -> S] : n \in lo..hi}

VARIABLES
    argv,               \* the command line
    pc,                 \* position in main()/process()
    _quiet, _input_files, _output_file, _overwrite,
    _framerate, _status, _preview,          \* video.py:16-22
    outFile,            \* the output path: "unobserved" until check_files() asks,
                        \* then "absent", "file" or "dir"; "new" once written
    outDirWritable,     \* os.access(output_file.parent, os.W_OK): "unobserved",
                        \* then TRUE or FALSE
    now,                \* the clock behind time.perf_counter()
    readersOpened,      \* number of imageio.get_reader calls so far
    openReaders,        \* handles of the readers not closed
    metaReads,          \* handles of the readers whose metadata was read
    params,             \* size, framerate, pixelformat, codec (video.py:114-117)
    paramsReported,     \* the parameter lines handed to iprint (lines 128-133)
    preview_fig,        \* pyplot figure exists
    writer,             \* "unopened", "open", "closed"
    writerOpens,        \* number of imageio.get_writer calls
    writerArgs,         \* keyword arguments of get_writer
    written,            \* frames handed to writer.append_data, in order
    input_idx,          \* position of input_file in _input_files
    reader_pos,         \* frames the current reader has yielded
    frame,              \* loop variable of line 149
    total_image_count, start_time, last_status_time,
    statusLog,          \* status lines handed to iprint
    previewLog,         \* previews shown
    summary,            \* final summaries handed to iprint
    stderr,             \* diagnostics written to the error stream
    error,              \* what ended the run, "none" while it runs or succeeds
    exitCode            \* <<>> while running, <<n>> after exit

vars == <<argv, pc, _quiet, _input_files, _output_file, _overwrite, _framerate,
          _status, _preview, outFile, outDirWritable, now, readersOpened, openReaders, metaReads,
          params, paramsReported, preview_fig, writer, writerOpens, writerArgs,
          written, input_idx, reader_pos, frame, total_image_count, start_time,
          last_status_time, statusLog, previewLog, summary, stderr, error, exitCode>>

globals == <<_quiet, _input_files, _output_file, _overwrite, _framerate, _status, _preview>>
readerVars == <<readersOpened, openReaders, metaReads>>
writerVars == <<writer, writerOpens, writerArgs, written>>
loopVars == <<input_idx, reader_pos, frame, total_image_count, start_time, last_status_time>>
outputVars == <<paramsReported, statusLog, previewLog, summary>>

\* Values of -f, -s and -p on the command line: absent, zero, negative, positive.
FramerateArgs == {None, Some(0), Some(-1), Some(2)}
StatusArgs == {None, Some(0), Some(-1), Some(1)}
PreviewArgs == {None, Some(0), Some(-1), Some(2)}

CommandLines ==
    [quiet     : BOOLEAN,
     inputs    : SeqsOf(InputPaths, 0, MaxInputs),
     output    : {None, Some("out")},
     overwrite : BOOLEAN,
     framerate : FramerateArgs,
     status    : StatusArgs,
     preview   : PreviewArgs]

Init ==
    /\ argv \in CommandLines
    /\ pc = "parse_arguments"
    /\ _quiet = FALSE /\ _input_files = None /\ _output_file = None
    /\ _overwrite = FALSE /\ _framerate = None /\ _status = None /\ _preview = None
    /\ outFile = "unobserved" /\ outDirWritable = "unobserved"
    /\ now = 0
    /\ readersOpened = 0 /\ openReaders = {} /\ metaReads = {}
    /\ params = None /\ paramsReported = <<>> /\ preview_fig = FALSE
    /\ writer = "unopened" /\ writerOpens = 0 /\ writerArgs = None /\ written = <<>>
    /\ input_idx = 0 /\ reader_pos = 0 /\ frame = None
    /\ total_image_count = 0 /\ start_time = 0 /\ last_status_time = 0
    /\ statusLog = <<>> /\ previewLog = <<>> /\ summary = <<>>
    /\ stderr = <<>> /\ error = "none" /\ exitCode = None

\* sys.exit(code) after a diagnostic on the error stream.
Exit(code, why, diag) ==
    /\ pc' = "exit"
    /\ exitCode' = Some(code)
    /\ error' = why
    /\ stderr' = IF diag = None THEN stderr ELSE Append(stderr, diag[1])

\* An exception nothing catches: the interpreter prints the traceback to the
\* error stream and exits with status 1.
Raise(exc) == Exit(1, exc, Some("Traceback"))

\* parser.parse_args() accepts the command line: -o is required (video.py:47)
\* and nargs="+" wants at least one input (video.py:46).
ArgparseAccepts(a) == a.output # None /\ Len(a.inputs) > 0

\* The asserts of video.py:67-73 on the values parse_args returned.
AssertsHold(a) ==
    /\ Len(a.inputs) > 0
    /\ a.output # None
    /\ (Truthy(a.framerate) => a.framerate[1] > 0)
    /\ (Truthy(a.preview) => a.preview[1] > 0)

\* parse_arguments(), video.py:38-75, and main()'s use of it, video.py:29-32.
\* ArgumentParser.error() prints the usage and calls sys.exit(2); parse_args()
\* does not raise ArgumentError, so the handler of line 55 is not reached.
ParseArguments ==
    /\ pc = "parse_arguments"
    /\ IF ~ArgparseAccepts(argv)
         THEN /\ Exit(2, "ArgumentError", Some("usage"))
              /\ UNCHANGED globals
         ELSE /\ _quiet' = argv.quiet
              /\ _input_files' = argv.inputs
              /\ _output_file' = argv.output
              /\ _overwrite' = argv.overwrite
              /\ _framerate' = argv.framerate
              /\ _status' = argv.status
              /\ _preview' = argv.preview
              /\ IF AssertsHold(argv)
                   THEN /\ pc' = "check_files"
                        /\ UNCHANGED <<exitCode, error, stderr>>
                   ELSE Raise("AssertionError")
    /\ UNCHANGED <<argv, outFile, outDirWritable, now, readerVars, params,
                   preview_fig, writerVars, loopVars, outputVars>>

\* The first input check_files() rejects and why, or "ok" (video.py:84-92).
RECURSIVE CheckInputs(_)
CheckInputs(files) ==
    IF files = <<>> THEN "ok"
    ELSE IF ~IsFile(Head(files)) THEN "Input file does not exist"
    ELSE IF ~Readable(Head(files)) THEN "Input file is not readable"
    ELSE CheckInputs(Tail(files))

\* Output checks that let an existing output pass without -w.
CheckOutputIgnoringOverwrite(out, overwrite, dirWritable) ==
    IF out # "absent" /\ out # "file" THEN "Output file exists but is not a file"
    ELSE IF ~dirWritable THEN "Output file is not in writable directory"
    ELSE "ok"

\* The output checks of check_files() (video.py:96-107) for an output path in
\* state out ("absent", "file", "dir") in a directory that is writable or not.
CheckOutput(out, overwrite, dirWritable) ==
    IF out # "absent" /\ ~overwrite THEN "Output file already exists"
    ELSE IF out # "absent" /\ out # "file" THEN "Output file exists but is not a file"
    ELSE IF ~dirWritable THEN "Output file is not in writable directory"
    ELSE "ok"

\* check_files() as a whole: the diagnostic it prints, or "ok".
CheckFilesResult(files, out, overwrite, dirWritable) ==
    IF CheckInputs(files) # "ok" THEN CheckInputs(files)
    ELSE CheckOutput(out, overwrite, dirWritable)

\* check_files(), video.py:78-110, and main()'s use of it, video.py:33-35.  The
\* state of the output path and of its directory is what the file system
\* answers when asked.
CheckFiles ==
    /\ pc = "check_files"
    /\ \E out \in {"absent", "file", "dir"}, dirWritable \in BOOLEAN :
        /\ outFile' = out
        /\ outDirWritable' = dirWritable
        /\ LET r == CheckFilesResult(_input_files, out, _overwrite, dirWritable)
           IN IF r = "ok"
                THEN /\ pc' = "probe"
                     /\ UNCHANGED <<exitCode, error, stderr>>
                ELSE Exit(1, "FileAccessError", Some(r))
    /\ UNCHANGED <<argv, globals, now, readerVars, params, preview_fig, writerVars,
                   loopVars, outputVars>>

\* iprint(): the line it is handed is printed unless -q was given
\* (video.py:176-181).
Iprint(log, line) == Append(log, [line |-> line, printed |-> ~_quiet])

\* imageio.get_reader(_input_files[0]), video.py:119.
ProbeOpen ==
    /\ pc = "probe"
    /\ IF ReaderOpens(_input_files[1])
         THEN /\ readersOpened' = readersOpened + 1
              /\ openReaders' = openReaders \cup {readersOpened + 1}
              /\ pc' = "metadata"
              /\ UNCHANGED <<stderr, error, exitCode>>
         ELSE /\ Raise("ProbeError")
              /\ UNCHANGED <<readersOpened, openReaders>>
    /\ UNCHANGED <<argv, globals, outFile, outDirWritable, now, metaReads, params,
                   preview_fig, writerVars, loopVars, outputVars>>

\* A negotiation that falls back to the probed framerate only when -f is absent.
NegotiateFramerateUnlessNone(override, probed) ==
    IF override = None THEN probed ELSE override[1]

\* The framerate of the run: the -f value when it is true, else the probed one
\* (video.py:115, 122-123).
NegotiateFramerate(override, probed) ==
    IF ~Truthy(override) THEN probed ELSE override[1]

\* A probe that reads the parameters and leaves its reader open.
ProbeMetadataKeepingReader ==
    /\ pc = "metadata"
    /\ LET metadata == Metadata(_input_files[1])
       IN params' = Some([size        |-> metadata.size,
                          framerate   |-> NegotiateFramerate(_framerate, metadata.fps),
                          pixelformat |-> LeadingAlnum(metadata.pix_fmt),
                          codec       |-> metadata.codec])
    /\ metaReads' = metaReads \cup {readersOpened}
    /\ pc' = "report"
    /\ UNCHANGED <<argv, globals, outFile, outDirWritable, now, readersOpened,
                   openReaders, preview_fig, writerVars, loopVars, outputVars,
                   stderr, error, exitCode>>

\* video.py:120-126: the parameters of the first input, then reader.close().
ProbeMetadata ==
    /\ pc = "metadata"
    /\ LET metadata == Metadata(_input_files[1])
       IN params' = Some([size        |-> metadata.size,
                          framerate   |-> NegotiateFramerate(_framerate, metadata.fps),
                          pixelformat |-> LeadingAlnum(metadata.pix_fmt),
                          codec       |-> metadata.codec])
    /\ metaReads' = metaReads \cup {readersOpened}
    /\ openReaders' = openReaders \ {readersOpened}
    /\ pc' = "report"
    /\ UNCHANGED <<argv, globals, outFile, outDirWritable, now, readersOpened, preview_fig,
                   writerVars, loopVars, outputVars, stderr, error, exitCode>>

\* video.py:128-133: the negotiated parameters are printed.
ReportParameters ==
    /\ pc = "report"
    /\ paramsReported' = Iprint(paramsReported, params[1])
    /\ pc' = "setup"
    /\ UNCHANGED <<argv, globals, outFile, outDirWritable, now, readerVars, params, preview_fig,
                   writerVars, loopVars, statusLog, previewLog, summary,
                   stderr, error, exitCode>>

\* video.py:135-142: the preview figure, the counter and the two timestamps.
\* The clock's origin is arbitrary: the first reading is its current value.
Setup ==
    /\ pc = "setup"
    /\ preview_fig' = Truthy(_preview)
    /\ total_image_count' = 0
    /\ start_time' = now
    /\ last_status_time' = now
    /\ pc' = "get_writer"
    /\ UNCHANGED <<argv, globals, outFile, outDirWritable, now, readerVars, params, writerVars,
                   input_idx, reader_pos, frame, outputVars, stderr, error, exitCode>>

\* A writer opened without the quality argument, at the library's default of 5.
OpenWriterDefaultQuality ==
    /\ pc = "get_writer"
    /\ writer' = "open"
    /\ writerOpens' = writerOpens + 1
    /\ writerArgs' = Some([fps         |-> params[1].framerate,
                           quality     |-> 5,
                           codec       |-> params[1].codec,
                           pixelformat |-> params[1].pixelformat])
    /\ outFile' = "new"
    /\ input_idx' = 1
    /\ pc' = "for_input"
    /\ UNCHANGED <<argv, globals, outDirWritable, now, readerVars, params, preview_fig,
                   written, reader_pos, frame, total_image_count, start_time,
                   last_status_time, outputVars, stderr, error, exitCode>>

\* imageio.get_writer(...), video.py:144; the output file is created anew.
OpenWriter ==
    /\ pc = "get_writer"
    /\ writer' = "open"
    /\ writerOpens' = writerOpens + 1
    /\ writerArgs' = Some([fps         |-> params[1].framerate,
                           quality     |-> OUTPUT_QUALITY,
                           codec       |-> params[1].codec,
                           pixelformat |-> params[1].pixelformat])
    /\ outFile' = "new"
    /\ input_idx' = 1
    /\ pc' = "for_input"
    /\ UNCHANGED <<argv, globals, outDirWritable, now, readerVars, params, preview_fig, written,
                   reader_pos, frame, total_image_count, start_time,
                   last_status_time, outputVars, stderr, error, exitCode>>

\* A loop that reads the metadata of every input it opens.
ForInputProbingEach ==
    /\ pc = "for_input"
    /\ IF input_idx > Len(_input_files)
         THEN /\ pc' = "close_writer"
              /\ UNCHANGED <<readersOpened, openReaders, metaReads, reader_pos,
                             stderr, error, exitCode>>
         ELSE IF ReaderOpens(_input_files[input_idx])
         THEN /\ readersOpened' = readersOpened + 1
              /\ openReaders' = openReaders \cup {readersOpened + 1}
              /\ metaReads' = metaReads \cup {readersOpened + 1}
              /\ reader_pos' = 0
              /\ pc' = "for_frame"
              /\ UNCHANGED <<stderr, error, exitCode>>
         ELSE /\ Raise("SourceOpenError")
              /\ UNCHANGED <<readersOpened, openReaders, metaReads, reader_pos>>
    /\ UNCHANGED <<argv, globals, outFile, outDirWritable, now, params,
                   preview_fig, writerVars, input_idx, frame, total_image_count,
                   start_time, last_status_time, outputVars>>

\* video.py:146-148: the next input_file of the list is opened, or the loop is
\* over and line 163 is reached.
ForInput ==
    /\ pc = "for_input"
    /\ IF input_idx > Len(_input_files)
         THEN /\ pc' = "close_writer"
              /\ UNCHANGED <<readersOpened, openReaders, reader_pos, stderr, error, exitCode>>
         ELSE IF ReaderOpens(_input_files[input_idx])
         THEN /\ readersOpened' = readersOpened + 1
              /\ openReaders' = openReaders \cup {readersOpened + 1}
              /\ reader_pos' = 0
              /\ pc' = "for_frame"
              /\ UNCHANGED <<stderr, error, exitCode>>
         ELSE /\ Raise("SourceOpenError")
              /\ UNCHANGED <<readersOpened, openReaders, reader_pos>>
    /\ UNCHANGED <<argv, globals, outFile, outDirWritable, now, metaReads, params,
                   preview_fig, writerVars, input_idx, frame, total_image_count,
                   start_time, last_status_time, outputVars>>

\* A loop that reports a decode error and goes on with the next input.
ForFrameSkippingBrokenInput ==
    /\ pc = "for_frame"
    /\ LET p == _input_files[input_idx]
       IN IF reader_pos < NFrames(p)
            THEN /\ frame' = Some(Frames(p)[reader_pos + 1])
                 /\ reader_pos' = reader_pos + 1
                 /\ pc' = "append_data"
                 /\ UNCHANGED <<stderr, error>>
            ELSE IF DecodeFails(p)
            THEN /\ pc' = "close_reader"
                 /\ error' = "DecodeError"
                 /\ stderr' = Append(stderr, "Traceback")
                 /\ UNCHANGED <<frame, reader_pos>>
            ELSE /\ pc' = "close_reader"
                 /\ UNCHANGED <<frame, reader_pos, stderr, error>>
    /\ UNCHANGED <<argv, globals, outFile, outDirWritable, now, readerVars, params,
                   preview_fig, writerVars, input_idx, total_image_count, start_time,
                   last_status_time, outputVars, exitCode>>

\* `for frame in reader`, video.py:149: the next frame, the end of the file, or
\* a decode error, which nothing catches.
ForFrame ==
    /\ pc = "for_frame"
    /\ LET p == _input_files[input_idx]
       IN IF reader_pos < NFrames(p)
            THEN /\ frame' = Some(Frames(p)[reader_pos + 1])
                 /\ reader_pos' = reader_pos + 1
                 /\ pc' = "append_data"
                 /\ UNCHANGED <<stderr, error, exitCode>>
            ELSE IF DecodeFails(p)
            THEN /\ Raise("DecodeError")
                 /\ UNCHANGED <<frame, reader_pos>>
            ELSE /\ pc' = "close_reader"
                 /\ UNCHANGED <<frame, reader_pos, stderr, error, exitCode>>
    /\ UNCHANGED <<argv, globals, outFile, outDirWritable, now, readerVars, params, preview_fig,
                   writerVars, input_idx, total_image_count, start_time,
                   last_status_time, outputVars>>

\* The encoder takes its frame size from the first frame it is given and
\* rejects a frame of another size.
EncoderAccepts(w, f) == w = <<>> \/ f.size = w[1].size

\* A writer that puts each new frame in front of the ones it holds.
AppendDataInFront(w, f) == <<f>> \o w

\* The frames the writer holds after one more append.
AppendData(w, f) == Append(w, f)

\* writer.append_data(frame), video.py:150.
WriterAppend ==
    /\ pc = "append_data"
    /\ IF EncoderAccepts(written, frame[1])
         THEN /\ written' = AppendData(written, frame[1])
              /\ pc' = "status"
              /\ UNCHANGED <<stderr, error, exitCode>>
         ELSE /\ Raise("EncodeError")
              /\ UNCHANGED written
    /\ UNCHANGED <<argv, globals, outFile, outDirWritable, now, readerVars, params, preview_fig,
                   writer, writerOpens, writerArgs, loopVars, outputVars>>

\* The values time.perf_counter() may return when the clock shows t.
PerfCounter(t) == t..Min(t + 1, MaxTime)

\* The condition of video.py:153.
StatusDue(status, current_time, last) ==
    Truthy(status) /\ (current_time - last) > status[1]

\* video.py:152-155.
Status ==
    /\ pc = "status"
    /\ \E current_time \in PerfCounter(now) :
        /\ now' = current_time
        /\ IF StatusDue(_status, current_time, last_status_time)
             THEN /\ statusLog' = Iprint(statusLog,
                        [at               |-> current_time,
                         duration         |-> current_time - start_time,
                         images_processed |-> total_image_count,
                         video_duration_processed |->
                             <<total_image_count, params[1].framerate>>])
                  /\ last_status_time' = current_time
             ELSE UNCHANGED <<statusLog, last_status_time>>
    /\ pc' = "preview"
    /\ UNCHANGED <<argv, globals, outFile, outDirWritable, readerVars, params, preview_fig,
                   writerVars, input_idx, reader_pos, frame, total_image_count,
                   start_time, paramsReported, previewLog, summary,
                   stderr, error, exitCode>>

\* A preview of every P-th frame counted from 1.
PreviewDueCountingFromOne(preview, count) ==
    Truthy(preview) /\ (count + 1) % preview[1] = 0

\* The condition of video.py:157.
PreviewDue(preview, count) == Truthy(preview) /\ count % preview[1] = 0

\* A preview that shows the figure with a call that does not return.
PreviewBlocking ==
    /\ pc = "preview"
    /\ ~PreviewDue(_preview, total_image_count)
    /\ pc' = "increment"
    /\ UNCHANGED <<argv, globals, outFile, outDirWritable, now, readerVars, params,
                   preview_fig, writerVars, loopVars, outputVars,
                   stderr, error, exitCode>>

\* video.py:156-160.
Preview ==
    /\ pc = "preview"
    /\ IF PreviewDue(_preview, total_image_count)
         THEN previewLog' = Append(previewLog,
                  [image |-> frame[1],
                   title |-> total_image_count,
                   time  |-> <<total_image_count, params[1].framerate>>])
         ELSE UNCHANGED previewLog
    /\ pc' = "increment"
    /\ UNCHANGED <<argv, globals, outFile, outDirWritable, now, readerVars, params, preview_fig,
                   writerVars, loopVars, paramsReported, statusLog, summary,
                   stderr, error, exitCode>>

\* A counter that restarts with every input.
IncrementPerInput ==
    /\ pc = "increment"
    /\ total_image_count' = reader_pos
    /\ pc' = "for_frame"
    /\ UNCHANGED <<argv, globals, outFile, outDirWritable, now, readerVars, params,
                   preview_fig, writerVars, input_idx, reader_pos, frame, start_time,
                   last_status_time, outputVars, stderr, error, exitCode>>

\* A counter that counts every frame twice.
IncrementByTwo ==
    /\ pc = "increment"
    /\ total_image_count' = total_image_count + 2
    /\ pc' = "for_frame"
    /\ UNCHANGED <<argv, globals, outFile, outDirWritable, now, readerVars, params,
                   preview_fig, writerVars, input_idx, reader_pos, frame, start_time,
                   last_status_time, outputVars, stderr, error, exitCode>>

\* total_image_count += 1, video.py:161.
Increment ==
    /\ pc = "increment"
    /\ total_image_count' = total_image_count + 1
    /\ pc' = "for_frame"
    /\ UNCHANGED <<argv, globals, outFile, outDirWritable, now, readerVars, params, preview_fig,
                   writerVars, input_idx, reader_pos, frame, start_time,
                   last_status_time, outputVars, stderr, error, exitCode>>

\* reader.close(), video.py:162, then the next turn of the outer loop.
CloseReader ==
    /\ pc = "close_reader"
    /\ openReaders' = openReaders \ {readersOpened}
    /\ input_idx' = input_idx + 1
    /\ pc' = "for_input"
    /\ UNCHANGED <<argv, globals, outFile, outDirWritable, now, readersOpened, metaReads, params,
                   preview_fig, writerVars, reader_pos, frame, total_image_count,
                   start_time, last_status_time, outputVars, stderr, error, exitCode>>

\* A run that goes on to the summary without closing the writer.
CloseWriterSkipped ==
    /\ pc = "close_writer"
    /\ pc' = "summary"
    /\ UNCHANGED <<argv, globals, outFile, outDirWritable, now, readerVars, params,
                   preview_fig, writerVars, loopVars, outputVars,
                   stderr, error, exitCode>>

\* writer.close(), video.py:163-165.
CloseWriter ==
    /\ pc = "close_writer"
    /\ writer' = "closed"
    /\ pc' = "summary"
    /\ UNCHANGED <<argv, globals, outFile, outDirWritable, now, readerVars, params, preview_fig,
                   writerOpens, writerArgs, written, loopVars, outputVars,
                   stderr, error, exitCode>>

\* video.py:167-173: the final summary; main() returns and the exit status is 0.
Summary ==
    /\ pc = "summary"
    /\ \E end_time \in PerfCounter(now) :
        /\ now' = end_time
        /\ summary' = Iprint(summary,
               [total_time  |-> end_time - start_time,
                image_count |-> total_image_count])
    /\ pc' = "exit"
    /\ exitCode' = Some(0)
    /\ UNCHANGED <<argv, globals, outFile, outDirWritable, readerVars, params, preview_fig,
                   writerVars, loopVars, paramsReported, statusLog, previewLog,
                   stderr, error>>

Next ==
    \/ ParseArguments
    \/ CheckFiles
    \/ ProbeOpen
    \/ ProbeMetadata
    \/ ReportParameters
    \/ Setup
    \/ OpenWriter
    \/ ForInput
    \/ ForFrame
    \/ WriterAppend
    \/ Status
    \/ Preview
    \/ Increment
    \/ CloseReader
    \/ CloseWriter
    \/ Summary

Spec == Init /\ [][Next]_vars

(***************************************************************************)
(* What the command line asks for, computed from argv and the files alone. *)
(***************************************************************************)

\* The frames of the listed inputs, one input after the other.
RECURSIVE ConcatFrames(_)
ConcatFrames(files) ==
    IF files = <<>> THEN <<>> ELSE Frames(Head(files)) \o ConcatFrames(Tail(files))

\* The number of frames of the listed inputs.
RECURSIVE SumFrames(_)
SumFrames(files) ==
    IF files = <<>> THEN 0 ELSE NFrames(Head(files)) + SumFrames(Tail(files))

Succeeded == pc = "exit" /\ exitCode = Some(0)

\* An option was given with a value greater than 0.
Positive(opt) == opt # None /\ opt[1] > 0

C2_NegotiatedFramerate ==
    writerArgs # None =>
        writerArgs[1].fps = IF Positive(argv.framerate)
                              THEN argv.framerate[1]
                              ELSE Metadata(argv.inputs[1]).fps

C2_Witness ==
    /\ writerArgs # None
    /\ argv.framerate = Some(0)
    /\ writerArgs[1].fps = 3

\* C3: after a successful run the image count, and the count every summary
\* line reports, is the sum of the frame counts of the listed inputs.
C3_TotalIsSumOfFrameCounts ==
    Succeeded =>
        /\ total_image_count = SumFrames(argv.inputs)
        /\ \A i \in DOMAIN summary : summary[i].line.image_count = SumFrames(argv.inputs)

C3_Witness ==
    /\ Succeeded
    /\ argv.inputs = <<"a", "a">>
    /\ summary # <<>>
    /\ summary[1].line.image_count = 6

\* C4: status lines appear only under a positive -s value S, and each is at
\* least S after the one before it (the first: after the start of the run).
C4_StatusOnlyWhenPositiveAndSpaced ==
    \A i \in DOMAIN statusLog :
        /\ Positive(argv.status)
        /\ statusLog[i].line.at
               - (IF i = 1 THEN start_time ELSE statusLog[i - 1].line.at)
               >= argv.status[1]

\* Frames that have passed the preview step of the loop body.
FramesPastPreview ==
    Len(written) - (IF pc \in {"status", "preview"} THEN 1 ELSE 0)

\* C5: under a positive -p value P the previews shown are those of the frames
\* with global index 0, P, 2P, ..., titled with that index; without a positive
\* P there is no preview.
C5_PreviewCadence ==
    IF Positive(argv.preview)
      THEN LET P == argv.preview[1]
           IN /\ Len(previewLog) = (FramesPastPreview + P - 1) \div P
              /\ \A i \in DOMAIN previewLog :
                    /\ previewLog[i].title = (i - 1) * P
                    /\ previewLog[i].image = written[(i - 1) * P + 1]
      ELSE previewLog = <<>>

C5_Witness ==
    /\ argv.preview = Some(2)
    /\ Len(previewLog) = 3
    /\ previewLog[3].title = 4
    /\ previewLog[3].image.idx = 2

\* The file system refuses the run: an input is missing or unreadable, the
\* output exists and -w was not given, the output is no regular file, or its
\* directory is not writable.
ValidationFails ==
    \/ \E i \in DOMAIN argv.inputs :
          ~IsFile(argv.inputs[i]) \/ ~Readable(argv.inputs[i])
    \/ outFile \in {"file", "dir"} /\ ~argv.overwrite
    \/ outFile = "dir"
    \/ outDirWritable = FALSE

Diagnostics ==
    {"Input file does not exist", "Input file is not readable",
     "Output file already exists", "Output file exists but is not a file",
     "Output file is not in writable directory"}

\* C6: once check_files() has looked at files that fail validation, the run
\* has ended with exit code 1 and one diagnostic on the error stream, no
\* reader or writer was opened, no frame was processed and the output path is
\* as it was found.
C6_ValidationFailureAborts ==
    (outFile # "unobserved" /\ ValidationFails) =>
        /\ pc = "exit"
        /\ exitCode = Some(1)
        /\ Len(stderr) = 1 /\ stderr[1] \in Diagnostics
        /\ readersOpened = 0
        /\ writerOpens = 0 /\ writer = "unopened"
        /\ written = <<>> /\ total_image_count = 0
        /\ outFile \in {"absent", "file", "dir"}

C6_Witness ==
    /\ pc = "exit"
    /\ outFile = "file" /\ ~argv.overwrite /\ outDirWritable = TRUE
    /\ \A i \in DOMAIN argv.inputs : argv.inputs[i] = "a"
    /\ stderr = <<"Output file already exists">>

\* Position of the first listed input whose decoding fails.
FirstDecodeFail(files) ==
    CHOOSE k \in DOMAIN files :
        /\ DecodeFails(files[k])
        /\ \A i \in 1..(k - 1) : ~DecodeFails(files[i])

\* C7: when decoding fails in input k after j frames, the run has ended with
\* exit code 1, the writer received the frames of the inputs before k and the
\* first j frames of k, no later input was opened and no summary was printed.
C7_DecodeErrorAborts ==
    error = "DecodeError" =>
        LET k == FirstDecodeFail(argv.inputs)
            j == NFrames(argv.inputs[k])
        IN /\ pc = "exit"
           /\ exitCode = Some(1)
           /\ written = ConcatFrames(SubSeq(argv.inputs, 1, k - 1))
                          \o SubSeq(Frames(argv.inputs[k]), 1, j)
           /\ readersOpened = 1 + k
           /\ summary = <<>>

C7_Witness ==
    /\ error = "DecodeError"
    /\ argv.inputs = <<"a", "bad">>
    /\ Len(written) = 4

\* The command line is one the tool documents as invalid.
BadArguments ==
    \/ argv.output = None
    \/ argv.inputs = <<>>
    \/ argv.framerate # None /\ argv.framerate[1] <= 0
    \/ argv.preview # None /\ argv.preview[1] <= 0

\* C8: the exit code is 1 after bad arguments, a file-access failure or a
\* processing failure, and 0 after a successful run; there is no other code.
C8_ExitCodes ==
    pc = "exit" =>
        /\ exitCode \in {Some(0), Some(1)}
        /\ (exitCode = Some(0) <=> error = "none")
        /\ BadArguments => exitCode = Some(1)

\* C9: no run ends with a reader still open.
C9_ReadersClosedAtExit ==
    pc = "exit" => openReaders = {}

\* C10: no run ends with the writer opened and not closed.
C10_WriterClosedAtExit ==
    (pc = "exit" /\ writerOpens > 0) => writer = "closed"

\* C11: while no error has occurred at most one reader is open, and it is the
\* one opened last: the probe reader is closed before the writer or a
\* streaming reader is opened, and each input's reader before the next one's.
C11_AtMostOneReaderOpen ==
    error = "none" =>
        /\ Cardinality(openReaders) <= 1
        /\ openReaders \subseteq {readersOpened}
        /\ (writerOpens > 0 \/ readersOpened > 1) => 1 \notin openReaders

C11_Witness ==
    /\ error = "none"
    /\ openReaders = {3}
    /\ writer = "open"
    /\ Len(written) = 4

\* The pixel format token of each video: the text before "(" of its pix_fmt.
ExpectedPixelFormat(p) == IF p = "odd" THEN <<"r", "g", "b">> ELSE <<"y", "u", "v">>

\* The framerate the command line and the first input call for.
ExpectedFramerate ==
    IF Positive(argv.framerate) THEN argv.framerate[1]
    ELSE Metadata(argv.inputs[1]).fps

\* The arguments get_writer is to be called with.
ExpectedWriterArgs ==
    [fps         |-> ExpectedFramerate,
     quality     |-> 10,
     codec       |-> Metadata(argv.inputs[1]).codec,
     pixelformat |-> ExpectedPixelFormat(argv.inputs[1])]

C12_WriterState ==
    /\ writerOpens <= 1
    /\ Succeeded => writerOpens = 1
    /\ writerOpens = 0 => (writer = "unopened" /\ written = <<>> /\ writerArgs = None)
    /\ writerOpens = 1 =>
          /\ params # None /\ metaReads = {1} /\ 1 \notin openReaders
          /\ writer \in {"open", "closed"}
          /\ writerArgs = Some(ExpectedWriterArgs)

C12_WriterStep ==
    /\ written' # written => (writer = "open" /\ writer' = "open")
    /\ writerOpens' # writerOpens => written = <<>>
    /\ writerArgs # None => writerArgs' = writerArgs

\* C12: the writer is opened once, after the probe and before the first
\* append, with quality 10 and the negotiated framerate, pixel format and
\* codec; frames are appended only while it is open and its arguments never
\* change.
C12_WriterOpenedOnce ==
    []C12_WriterState /\ [][C12_WriterStep]_vars

C12_Witness ==
    /\ writer = "closed"
    /\ writerOpens = 1
    /\ Len(written) = 6
    /\ argv.framerate = Some(2)
    /\ writerArgs = Some([fps |-> 2, quality |-> 10, codec |-> "h264",
                          pixelformat |-> <<"y", "u", "v">>])

\* The status line handed to iprint in this step.
NewStatusLine == statusLog'[Len(statusLog')].line

\* C13: every status line is emitted after an append and reports the number
\* of frames appended so far, the frame just appended included, and that
\* number divided by the negotiated framerate.
C13_StatusReportsAppendedFrames ==
    [][statusLog' # statusLog =>
          /\ Len(written') > 0
          /\ NewStatusLine.images_processed = Len(written')
          /\ NewStatusLine.video_duration_processed = <<Len(written'), ExpectedFramerate>>]_vars

\* The state of the run at each position of main() and process().
RunStateAt(p, code) ==
    CASE p \in {"parse_arguments", "check_files"} -> "Idle"
      [] p \in {"probe", "metadata"} -> "Probing"
      [] p \in {"report", "setup", "get_writer"} -> "Negotiated"
      [] p \in {"for_input", "for_frame", "append_data", "status", "preview",
                "increment", "close_reader"} -> "Streaming"
      [] p \in {"close_writer", "summary"} -> "Done"
      [] OTHER -> IF code = Some(0) THEN "Done" ELSE "Failed"

Rank(state) ==
    CASE state = "Idle" -> 0
      [] state = "Probing" -> 1
      [] state = "Negotiated" -> 2
      [] state = "Streaming" -> 3
      [] OTHER -> 4

C14_RunStateStep ==
    LET from == RunStateAt(pc, exitCode)
        to   == RunStateAt(pc', exitCode')
    IN /\ from # "Failed"
       /\ \/ to = "Failed"
          \/ Rank(to) = Rank(from)
          \/ Rank(to) = Rank(from) + 1

C14_ProbeAndReport ==
    /\ metaReads \subseteq {1}
    /\ Len(paramsReported) <= 1
    /\ (writerOpens > 0 \/ readersOpened > 1) =>
          /\ metaReads = {1}
          /\ Len(paramsReported) = 1
          /\ paramsReported[1].line =
                [size        |-> Metadata(argv.inputs[1]).size,
                 framerate   |-> ExpectedFramerate,
                 pixelformat |-> ExpectedPixelFormat(argv.inputs[1]),
                 codec       |-> Metadata(argv.inputs[1]).codec]

\* C14: the run goes Idle, Probing, Negotiated, Streaming, Done, one state at
\* a time and never back (or to Failed); only the first reader's metadata is
\* read, and the negotiated parameters are handed to iprint before the writer
\* and any streaming reader is opened.
C14_RunStateOrder ==
    []C14_ProbeAndReport /\ [][C14_RunStateStep]_vars

C14_Witness ==
    /\ Succeeded
    /\ Len(argv.inputs) = 2
    /\ readersOpened = 3
    /\ metaReads = {1}
    /\ Len(paramsReported) = 1

\* C15: a successful run hands exactly one final summary to iprint, after all
\* readers and the writer were closed; a failed run hands none.
C15_SummaryOnceAfterClose ==
    /\ Len(summary) <= 1
    /\ Succeeded => Len(summary) = 1
    /\ summary # <<>> =>
          /\ openReaders = {}
          /\ writer = "closed"
          /\ error = "none"
    /\ (pc = "exit" /\ exitCode # Some(0)) => summary = <<>>

C15_Witness ==
    /\ Succeeded
    /\ Len(summary) = 1
    /\ readersOpened = 3
    /\ summary[1].line.image_count = 3

\* Positions between two turns of the frame loop.
LoopBoundary ==
    pc \in {"for_input", "for_frame", "close_reader", "close_writer", "summary"}

C16_RunStateBounds ==
    /\ total_image_count >= 0
    /\ writerOpens = 0 => total_image_count = 0
    /\ Len(written) - total_image_count \in {0, 1}
    /\ LoopBoundary => Len(written) = total_image_count
    /\ last_status_time >= start_time

C16_RunStateStep ==
    /\ total_image_count' \in {total_image_count, total_image_count + 1}
    /\ total_image_count' # total_image_count => total_image_count' = Len(written')
    /\ Len(written') # Len(written) => Len(written') = total_image_count + 1
    /\ last_status_time' >= last_status_time
    /\ start_time' >= start_time

\* C16: total_image_count starts at 0, never decreases and grows by 1 per
\* appended frame, so it trails the number of appended frames by 0 or 1 (by 0
\* between turns of the loop); last_status_time never decreases and is never
\* before start_time.
C16_RunStateMonotone ==
    []C16_RunStateBounds /\ [][C16_RunStateStep]_vars

C16_Witness ==
    /\ pc = "preview"
    /\ Len(written) = 5
    /\ total_image_count = 4
    /\ last_status_time > start_time

\* C17: whatever the options, the pixel format and codec handed to the writer
\* and the size reported are those of the first input; -f changes the
\* writer's framerate and nothing else.
C17_OnlyFramerateOverridable ==
    /\ writerArgs # None =>
          /\ writerArgs[1].pixelformat = ExpectedPixelFormat(argv.inputs[1])
          /\ writerArgs[1].codec = Metadata(argv.inputs[1]).codec
    /\ params # None =>
          /\ params[1].size = FrameSize(argv.inputs[1])
          /\ params[1].pixelformat = ExpectedPixelFormat(argv.inputs[1])
          /\ params[1].codec = Metadata(argv.inputs[1]).codec
    /\ \A i \in DOMAIN paramsReported :
          paramsReported[i].line.size = FrameSize(argv.inputs[1])

C17_Witness ==
    /\ writerArgs # None
    /\ argv.framerate = Some(2)
    /\ argv.inputs[1] = "a"
    /\ writerArgs[1].fps = 2
    /\ writerArgs[1].pixelformat = <<"y", "u", "v">>
    /\ writerArgs[1].codec = "h264"
    /\ paramsReported[1].line.size = <<2, 2>>

\* The script is one sequential process that runs until it exits: a step that
\* can be taken is taken.
FairSpec == Spec /\ WF_vars(Next)

\* C18: a run that has passed validation reaches its exit, after success or
\* after a failure; it does not stay in the probe or in the loops, and no
\* status or preview step holds it up.
C18_RunTerminates ==
    (pc = "probe") ~> (pc = "exit")

C18_Witness ==
    /\ Succeeded
    /\ Len(written) = 6
    /\ Len(statusLog) = 2
    /\ Len(previewLog) = 3

====
